---- MODULE Spec2Model ----
(***************************************************************************)
(* Finance tracker backend: the credential store (auth.py), the access     *)
(* gate (get_current_user), the category registry, the transaction ledger  *)
(* and the budget registry (transactions.py) over the relational store     *)
(* declared in models.py.                                                  *)
(*                                                                         *)
(* Optional values (Python None / a value) are <<>> / <<v>>.               *)
(* Time is counted in days.                                                *)
(***************************************************************************)
EXTENDS Integers, Sequences, FiniteSets, TLC

VARIABLES
    users,          \* table "users": rows [id, email, hashed_password]
    categories,     \* table "categories": rows [id, name, color]
    transactions,   \* table "transactions"
    budgets,        \* table "budgets"
    now,            \* the server's clock (datetime.utcnow / func.now)
    last,           \* the last call handled and the response it produced
    inflight        \* calls between their lookup and their commit

vars == <<users, categories, transactions, budgets, now, last, inflight>>

(***************************************************************************)
(* Bounds of the model.                                                    *)
(***************************************************************************)
MaxTime == 2        \* the clock stops here
MaxTxns == 2        \* the largest transaction id given out
MaxBudgets == 1     \* the largest budget id given out
MaxInflight == 2    \* register calls in flight at once
MaxListLimit == 1   \* the configured maximum of the listing's limit (100), scaled
DaysPerMonth == 2   \* the days of a calendar month, scaled

\* auth.py: ACCESS_TOKEN_EXPIRE_MINUTES = 60 * 24, one day
ACCESS_TOKEN_EXPIRE_DAYS == 1

Emails == {"a@x.io", "b@x.io"}
Passwords == {"secret1", "secret2"}
Salts == {"s1", "s2"}

Max(S) == CHOOSE m \in S : \A n \in S : n <= m

\* INTEGER PRIMARY KEY of the default SQLite engine: the largest id plus one.
NextId(table) == IF table = {} THEN 1 ELSE Max({r.id : r \in table}) + 1

\* Query(...).filter(...).first() on a filter that selects at most one row.
First(rows) == IF rows = {} THEN <<>> ELSE <<CHOOSE r \in rows : TRUE>>

(***************************************************************************)
(* Responses.  main.py turns every HTTPException into                      *)
(* {"status": "error", "message": detail} with the exception's status.     *)
(***************************************************************************)
Call(op, cred, id, req) == [op |-> op, cred |-> cred, id |-> id, req |-> req]

Respond(call, status, detail, body) ==
    [op |-> call.op, cred |-> call.cred, id |-> call.id, req |-> call.req,
     status |-> status, detail |-> detail, body |-> body]

HTTPException(call, status, detail) == Respond(call, status, detail, <<>>)

Idle == Respond(Call("none", <<>>, <<>>, <<>>), 0, "", <<>>)

(***************************************************************************)
(* auth.py: password hashing and tokens.                                   *)
(***************************************************************************)
\* pwd_context.hash: a salted one-way digest; the digest embeds its salt.
Digest(salt, password) == <<"bcrypt", salt, password>>

get_password_hash(password, salt) == [salt |-> salt, digest |-> Digest(salt, password)]

\* Mutant: the plaintext is compared with the stored digest.
verify_password_Plaintext(plain, hashed) == <<plain>> = hashed.digest

verify_password(plain, hashed) == Digest(hashed.salt, plain) = hashed.digest

create_access_token(sub) ==
    [signed |-> TRUE, sub |-> <<sub>>, exp |-> now + ACCESS_TOKEN_EXPIRE_DAYS]

\* jwt.decode: the signature must verify and exp must not lie in the past.
jwt_decode_ok(token) == token.signed /\ token.exp >= now

\* get_current_user: <<user>> and no error, or the HTTPException raised.
\* A missing bearer token is rejected by the OAuth2 scheme with 401.
get_current_user(cred) ==
    IF cred = <<>> THEN [user |-> <<>>, status |-> 401, detail |-> "Not authenticated"]
    ELSE LET token == cred[1] IN
        IF ~jwt_decode_ok(token)
        THEN [user |-> <<>>, status |-> 401, detail |-> "Token is invalid or expired"]
        ELSE IF token.sub = <<>>
        THEN [user |-> <<>>, status |-> 401, detail |-> "Invalid JWT subject"]
        ELSE LET user == First({u \in users : u.id = token.sub[1]}) IN
            IF user = <<>>
            THEN [user |-> <<>>, status |-> 404, detail |-> "User not found"]
            ELSE [user |-> user, status |-> 200, detail |-> ""]

\* Column(String, unique=True) on users.email
UsersEmailUnique(rows) == \A u1, u2 \in rows : u1.email = u2.email => u1 = u2

\* Mutant: register without the lookup of an existing user.
register_NoLookup(email, password) ==
    LET call == Call("register", <<>>, <<>>, <<[email |-> email, password |-> password]>>)
    IN  /\ \E salt \in Salts :
                LET u == [id |-> NextId(users), email |-> email,
                          hashed_password |-> get_password_hash(password, salt)]
                IN  /\ users' = users \cup {u}
                    /\ last' = Respond(call, 200, "", <<create_access_token(u.id)>>)
        /\ UNCHANGED <<categories, transactions, budgets, now, inflight>>

register(email, password) ==
    LET call == Call("register", <<>>, <<>>, <<[email |-> email, password |-> password]>>)
        existing == First({u \in users : u.email = email})
    IN  /\ IF existing # <<>>
           THEN /\ last' = HTTPException(call, 400, "Email already registered")
                /\ users' = users
           ELSE \E salt \in Salts :
                LET u == [id |-> NextId(users), email |-> email,
                          hashed_password |-> get_password_hash(password, salt)]
                IN  /\ users' = users \cup {u}
                    /\ last' = Respond(call, 200, "", <<create_access_token(u.id)>>)
        /\ UNCHANGED <<categories, transactions, budgets, now, inflight>>

\* Mutant: an unknown email gets an answer of its own.
login_UnknownEmailTold(email, password) ==
    LET call == Call("login", <<>>, <<>>, <<[email |-> email, password |-> password]>>)
        u == First({r \in users : r.email = email})
    IN  /\ IF u = <<>>
           THEN last' = HTTPException(call, 404, "User not found")
           ELSE IF ~verify_password(password, u[1].hashed_password)
           THEN last' = HTTPException(call, 401, "Invalid credentials")
           ELSE last' = Respond(call, 200, "", <<create_access_token(u[1].id)>>)
        /\ UNCHANGED <<users, categories, transactions, budgets, now, inflight>>

login(email, password) ==
    LET call == Call("login", <<>>, <<>>, <<[email |-> email, password |-> password]>>)
        u == First({r \in users : r.email = email})
    IN  /\ IF u = <<>> \/ ~verify_password(password, u[1].hashed_password)
           THEN last' = HTTPException(call, 401, "Invalid credentials")
           ELSE last' = Respond(call, 200, "", <<create_access_token(u[1].id)>>)
        /\ UNCHANGED <<users, categories, transactions, budgets, now, inflight>>

(***************************************************************************)
(* transactions.py: the transaction ledger.  Every handler depends on      *)
(* get_current_user, which FastAPI resolves before the handler body runs.  *)
(***************************************************************************)
\* session.commit() of a row whose category_id references no category:
\* an engine that enforces FOREIGN KEY raises IntegrityError, which no
\* handler catches; SQLite without PRAGMA foreign_keys stores the row.
\* `enforced` is what the configured engine (db.py) does.
ForeignKeyError(category_id, enforced) ==
    /\ enforced
    /\ category_id # <<>>
    /\ ~\E c \in categories : c.id = category_id[1]

\* Mutant: the category query without its filter.
CategoryById_Unfiltered(category_id) == First(categories)

\* db.query(Category).filter(Category.id == category_id).first()
CategoryById(category_id) == First({c \in categories : c.id = category_id})

Abs(n) == IF n < 0 THEN -n ELSE n

\* Mutant: the amount is stored without its sign.
NewTransaction_Unsigned(user, transaction_in) ==
    [id |-> NextId(transactions),
     user_id |-> user.id,
     category_id |-> transaction_in.category_id,
     amount |-> Abs(transaction_in.amount),
     description |-> transaction_in.description,
     type |-> transaction_in.type,
     timestamp |-> IF transaction_in.timestamp # <<>>
                   THEN transaction_in.timestamp[1] ELSE now]

\* Transaction(user_id=..., ...), with the id the insert gives it.
NewTransaction(user, transaction_in) ==
    [id |-> NextId(transactions),
     user_id |-> user.id,
     category_id |-> transaction_in.category_id,
     amount |-> transaction_in.amount,
     description |-> transaction_in.description,
     type |-> transaction_in.type,
     timestamp |-> IF transaction_in.timestamp # <<>>
                   THEN transaction_in.timestamp[1] ELSE now]

create_transaction(cred, transaction_in) ==
    LET call == Call("create_transaction", cred, <<>>, <<transaction_in>>)
        auth == get_current_user(cred)
        category == CategoryById(transaction_in.category_id)
        txn == NewTransaction(auth.user[1], transaction_in)
    IN  /\ NextId(transactions) <= MaxTxns
        /\ IF auth.user = <<>>
           THEN /\ last' = HTTPException(call, auth.status, auth.detail)
                /\ transactions' = transactions
           ELSE IF category = <<>>
           THEN /\ last' = HTTPException(call, 404, "Category not found")
                /\ transactions' = transactions
           ELSE /\ transactions' = transactions \cup {txn}
                /\ last' = Respond(call, 200, "", <<txn>>)
        /\ UNCHANGED <<users, categories, budgets, now, inflight>>

\* Mutant: the transaction query without its owner filter.
OwnedTransaction_AnyOwner(transaction_id, user) ==
    First({t \in transactions : t.id = transaction_id})

\* db.query(Transaction).filter(Transaction.id == transaction_id,
\*                              Transaction.user_id == user.id).first()
OwnedTransaction(transaction_id, user) ==
    First({t \in transactions : t.id = transaction_id /\ t.user_id = user.id})

get_transaction(cred, transaction_id) ==
    LET call == Call("get_transaction", cred, <<transaction_id>>, <<>>)
        auth == get_current_user(cred)
        txn == OwnedTransaction(transaction_id, auth.user[1])
    IN  /\ IF auth.user = <<>>
           THEN last' = HTTPException(call, auth.status, auth.detail)
           ELSE IF txn = <<>>
           THEN last' = HTTPException(call, 404, "Transaction not found")
           ELSE last' = Respond(call, 200, "", txn)
        /\ UNCHANGED <<users, categories, transactions, budgets, now, inflight>>

\* Mutant: the update takes any user's row and makes the caller its owner.
update_transaction_Reassign(cred, transaction_id, req) ==
    LET call == Call("update_transaction", cred, <<transaction_id>>, <<req>>)
        auth == get_current_user(cred)
        txn == First({t \in transactions : t.id = transaction_id})
        updated == [txn[1] EXCEPT
                        !.user_id = auth.user[1].id,
                        !.category_id = req.category_id,
                        !.amount = req.amount,
                        !.description = req.description,
                        !.type = req.type,
                        !.timestamp = IF req.timestamp # <<>> THEN req.timestamp[1] ELSE @]
    IN  /\ IF auth.user = <<>>
           THEN /\ last' = HTTPException(call, auth.status, auth.detail)
                /\ transactions' = transactions
           ELSE IF txn = <<>>
           THEN /\ last' = HTTPException(call, 404, "Transaction not found")
                /\ transactions' = transactions
           ELSE /\ transactions' = (transactions \ {txn[1]}) \cup {updated}
                /\ last' = Respond(call, 200, "", <<updated>>)
        /\ UNCHANGED <<users, categories, budgets, now, inflight>>

update_transaction(cred, transaction_id, req) ==
    LET call == Call("update_transaction", cred, <<transaction_id>>, <<req>>)
        auth == get_current_user(cred)
        txn == OwnedTransaction(transaction_id, auth.user[1])
        updated == [txn[1] EXCEPT
                        !.category_id = req.category_id,
                        !.amount = req.amount,
                        !.description = req.description,
                        !.type = req.type,
                        !.timestamp = IF req.timestamp # <<>> THEN req.timestamp[1] ELSE @]
    IN  /\ IF auth.user = <<>>
           THEN /\ last' = HTTPException(call, auth.status, auth.detail)
                /\ transactions' = transactions
           ELSE IF txn = <<>>
           THEN /\ last' = HTTPException(call, 404, "Transaction not found")
                /\ transactions' = transactions
           ELSE \E enforced \in BOOLEAN :
                IF ForeignKeyError(<<req.category_id>>, enforced)
                THEN /\ last' = HTTPException(call, 500, "Internal Server Error")
                     /\ transactions' = transactions
                ELSE /\ transactions' = (transactions \ {txn[1]}) \cup {updated}
                     /\ last' = Respond(call, 200, "", <<updated>>)
        /\ UNCHANGED <<users, categories, budgets, now, inflight>>

\* Mutant: a delete of a missing row is answered like a successful one.
delete_transaction_Silent(cred, transaction_id) ==
    LET call == Call("delete_transaction", cred, <<transaction_id>>, <<>>)
        auth == get_current_user(cred)
        txn == OwnedTransaction(transaction_id, auth.user[1])
    IN  /\ IF auth.user = <<>>
           THEN /\ last' = HTTPException(call, auth.status, auth.detail)
                /\ transactions' = transactions
           ELSE IF txn = <<>>
           THEN /\ last' = Respond(call, 204, "", <<>>)
                /\ transactions' = transactions
           ELSE /\ transactions' = transactions \ {txn[1]}
                /\ last' = Respond(call, 204, "", <<>>)
        /\ UNCHANGED <<users, categories, budgets, now, inflight>>

delete_transaction(cred, transaction_id) ==
    LET call == Call("delete_transaction", cred, <<transaction_id>>, <<>>)
        auth == get_current_user(cred)
        txn == OwnedTransaction(transaction_id, auth.user[1])
    IN  /\ IF auth.user = <<>>
           THEN /\ last' = HTTPException(call, auth.status, auth.detail)
                /\ transactions' = transactions
           ELSE IF txn = <<>>
           THEN /\ last' = HTTPException(call, 404, "Transaction not found")
                /\ transactions' = transactions
           ELSE /\ transactions' = transactions \ {txn[1]}
                /\ last' = Respond(call, 204, "", <<>>)
        /\ UNCHANGED <<users, categories, budgets, now, inflight>>

Min(a, b) == IF a <= b THEN a ELSE b

\* Mutant: the list query without its owner filter.
UserTransactions_Unfiltered(user) == transactions

\* db.query(Transaction).filter(Transaction.user_id == user.id)
UserTransactions(user) == {t \in transactions : t.user_id = user.id}

\* .order_by(Transaction.timestamp.desc()): every order of the rows in which
\* timestamps never increase.  SQL leaves the order of rows with equal
\* timestamps to the engine.
OrderByTimestampDesc(rows) ==
    {s \in [1..Cardinality(rows) -> rows] :
        /\ \A i, j \in DOMAIN s : i # j => s[i] # s[j]
        /\ \A i, j \in DOMAIN s : i < j => s[i].timestamp >= s[j].timestamp}

\* .offset(skip).limit(limit) on an ordered result of n rows.
OffsetLimit(s, n, skip, limit) ==
    [i \in 1..Max({0, Min(limit, n - skip)}) |-> s[skip + i]]

list_transactions(cred, skip, limit) ==
    LET call == Call("list_transactions", cred, <<>>, <<[skip |-> skip, limit |-> limit]>>)
        auth == get_current_user(cred)
        rows == UserTransactions(auth.user[1])
    IN  /\ IF auth.user = <<>>
           THEN last' = HTTPException(call, auth.status, auth.detail)
           ELSE \E s \in OrderByTimestampDesc(rows) :
                last' = Respond(call, 200, "",
                                <<OffsetLimit(s, Cardinality(rows), skip, limit)>>)
        /\ UNCHANGED <<users, categories, transactions, budgets, now, inflight>>

(***************************************************************************)
(* transactions.py: the category registry (no authentication).             *)
(***************************************************************************)
\* Column(String, unique=True) on categories.name
CategoryNameUnique(rows) == \A c1, c2 \in rows : c1.name = c2.name => c1 = c2

\* Mutant: create_category without its lookup; the unique index alone
\* rejects the second row of a name, as an uncaught IntegrityError.
create_category_NoLookup(category_in) ==
    LET call == Call("create_category", <<>>, <<>>, <<category_in>>)
        category == [id |-> NextId(categories), name |-> category_in.name,
                     color |-> category_in.color]
    IN  /\ IF ~CategoryNameUnique(categories \cup {category})
           THEN /\ last' = HTTPException(call, 500, "Internal Server Error")
                /\ categories' = categories
           ELSE /\ categories' = categories \cup {category}
                /\ last' = Respond(call, 200, "", <<category>>)
        /\ UNCHANGED <<users, transactions, budgets, now, inflight>>

create_category(category_in) ==
    LET call == Call("create_category", <<>>, <<>>, <<category_in>>)
        existing == First({c \in categories : c.name = category_in.name})
        category == [id |-> NextId(categories), name |-> category_in.name,
                     color |-> category_in.color]
    IN  /\ IF existing # <<>>
           THEN /\ last' = HTTPException(call, 400, "Category name already exists")
                /\ categories' = categories
           ELSE /\ categories' = categories \cup {category}
                /\ last' = Respond(call, 200, "", <<category>>)
        /\ UNCHANGED <<users, transactions, budgets, now, inflight>>

(***************************************************************************)
(* transactions.py: the budget registry.                                   *)
(***************************************************************************)
create_budget(cred, budget_in) ==
    LET call == Call("create_budget", cred, <<>>, <<budget_in>>)
        auth == get_current_user(cred)
        category == IF budget_in.category_id = <<>> THEN <<>>
                    ELSE CategoryById(budget_in.category_id[1])
        budget == [id |-> NextId(budgets),
                   user_id |-> auth.user[1].id,
                   category_id |-> budget_in.category_id,
                   limit |-> budget_in.limit,
                   period |-> budget_in.period,
                   start_date |-> budget_in.start_date,
                   end_date |-> budget_in.end_date]
    IN  /\ NextId(budgets) <= MaxBudgets
        /\ IF auth.user = <<>>
           THEN /\ last' = HTTPException(call, auth.status, auth.detail)
                /\ budgets' = budgets
           ELSE IF budget_in.category_id # <<>> /\ category = <<>>
           THEN /\ last' = HTTPException(call, 404, "Category not found")
                /\ budgets' = budgets
           ELSE /\ budgets' = budgets \cup {budget}
                /\ last' = Respond(call, 200, "", <<budget>>)
        /\ UNCHANGED <<users, categories, transactions, now, inflight>>

\* Mutant: the budget query without its owner filter.
OwnedBudget_AnyOwner(budget_id, user) ==
    First({b \in budgets : b.id = budget_id})

\* db.query(Budget).filter(Budget.id == budget_id, Budget.user_id == user.id).first()
OwnedBudget(budget_id, user) ==
    First({b \in budgets : b.id = budget_id /\ b.user_id = user.id})

delete_budget(cred, budget_id) ==
    LET call == Call("delete_budget", cred, <<budget_id>>, <<>>)
        auth == get_current_user(cred)
        budget == OwnedBudget(budget_id, auth.user[1])
    IN  /\ IF auth.user = <<>>
           THEN /\ last' = HTTPException(call, auth.status, auth.detail)
                /\ budgets' = budgets
           ELSE IF budget = <<>>
           THEN /\ last' = HTTPException(call, 404, "Budget not found")
                /\ budgets' = budgets
           ELSE /\ budgets' = budgets \ {budget[1]}
                /\ last' = Respond(call, 204, "", <<>>)
        /\ UNCHANGED <<users, categories, transactions, now, inflight>>

get_budget(cred, budget_id) ==
    LET call == Call("get_budget", cred, <<budget_id>>, <<>>)
        auth == get_current_user(cred)
        budget == OwnedBudget(budget_id, auth.user[1])
    IN  /\ IF auth.user = <<>>
           THEN last' = HTTPException(call, auth.status, auth.detail)
           ELSE IF budget = <<>>
           THEN last' = HTTPException(call, 404, "Budget not found")
           ELSE last' = Respond(call, 200, "", budget)
        /\ UNCHANGED <<users, categories, transactions, budgets, now, inflight>>

update_budget(cred, budget_id, req) ==
    LET call == Call("update_budget", cred, <<budget_id>>, <<req>>)
        auth == get_current_user(cred)
        budget == OwnedBudget(budget_id, auth.user[1])
        updated == [budget[1] EXCEPT
                        !.category_id = req.category_id,
                        !.limit = req.limit,
                        !.period = req.period,
                        !.start_date = req.start_date,
                        !.end_date = req.end_date]
    IN  /\ IF auth.user = <<>>
           THEN /\ last' = HTTPException(call, auth.status, auth.detail)
                /\ budgets' = budgets
           ELSE IF budget = <<>>
           THEN /\ last' = HTTPException(call, 404, "Budget not found")
                /\ budgets' = budgets
           ELSE \E enforced \in BOOLEAN :
                IF ForeignKeyError(req.category_id, enforced)
                THEN /\ last' = HTTPException(call, 500, "Internal Server Error")
                     /\ budgets' = budgets
                ELSE /\ budgets' = (budgets \ {budget[1]}) \cup {updated}
                     /\ last' = Respond(call, 200, "", <<updated>>)
        /\ UNCHANGED <<users, categories, transactions, now, inflight>>

\* .order_by(Budget.start_date.desc()): every order of the rows in which
\* start dates never increase.
OrderByStartDateDesc(rows) ==
    {s \in [1..Cardinality(rows) -> rows] :
        /\ \A i, j \in DOMAIN s : i # j => s[i] # s[j]
        /\ \A i, j \in DOMAIN s : i < j => s[i].start_date >= s[j].start_date}

list_budgets(cred) ==
    LET call == Call("list_budgets", cred, <<>>, <<>>)
        auth == get_current_user(cred)
    IN  /\ IF auth.user = <<>>
           THEN last' = HTTPException(call, auth.status, auth.detail)
           ELSE \E s \in OrderByStartDateDesc({b \in budgets : b.user_id = auth.user[1].id}) :
                last' = Respond(call, 200, "", <<s>>)
        /\ UNCHANGED <<users, categories, transactions, budgets, now, inflight>>

(***************************************************************************)
(* dashboard.py: the analytics engine, read-only.                          *)
(***************************************************************************)
RECURSIVE SumAmount(_)
\* func.sum(Transaction.amount) over the selected rows, `or 0` when the
\* query selects none.
SumAmount(rows) ==
    IF rows = {} THEN 0
    ELSE LET t == CHOOSE r \in rows : TRUE IN t.amount + SumAmount(rows \ {t})

\* Mutant: the month starts today.
this_month_start_Today(t) == t

\* datetime(now.year, now.month, 1): the first day of the month of day t.
this_month_start(t) == t - (t % DaysPerMonth)

\* Mutant: income and expense told apart by the sign of the amount.
UserTypeTransactions_BySign(user, type) ==
    {t \in transactions :
        /\ t.user_id = user.id
        /\ IF type = "income" THEN t.amount > 0 ELSE t.amount < 0}

\* filter(Transaction.user_id == user.id, Transaction.type == type)
UserTypeTransactions(user, type) ==
    {t \in transactions : t.user_id = user.id /\ t.type = type}

\* The summary object dashboard_summary returns for the user.
Summary(user) ==
    LET start == this_month_start(now)
    IN  [income_total |-> SumAmount(UserTypeTransactions(user, "income")),
         expense_total |-> SumAmount(UserTypeTransactions(user, "expense")),
         month_income |-> SumAmount({t \in UserTypeTransactions(user, "income") :
                                        t.timestamp >= start}),
         month_expense |-> SumAmount({t \in UserTypeTransactions(user, "expense") :
                                        t.timestamp >= start})]

dashboard_summary(cred) ==
    LET call == Call("dashboard_summary", cred, <<>>, <<>>)
        auth == get_current_user(cred)
    IN  /\ IF auth.user = <<>>
           THEN last' = HTTPException(call, auth.status, auth.detail)
           ELSE last' = Respond(call, 200, "", <<Summary(auth.user[1])>>)
        /\ UNCHANGED <<users, categories, transactions, budgets, now, inflight>>

\* The rows the query of category_spending joins to the category c.
CategoryExpenses(c, user, start_date, end_date) ==
    {t \in UserTypeTransactions(user, "expense") :
        /\ t.category_id = c.id
        /\ start_date # <<>> => t.timestamp >= start_date[1]
        /\ end_date # <<>> => t.timestamp <= end_date[1]}

\* The response is a list in the order the engine groups in; the model keeps
\* its entries as a set.
CategorySpendingRows(user, start_date, end_date) ==
    {[category |-> c.name,
      total_spent |-> SumAmount(CategoryExpenses(c, user, start_date, end_date))] :
        c \in {k \in categories :
                CategoryExpenses(k, user, start_date, end_date) # {}}}

category_spending(cred, start_date, end_date) ==
    LET call == Call("category_spending", cred, <<>>,
                     <<[start_date |-> start_date, end_date |-> end_date]>>)
        auth == get_current_user(cred)
    IN  /\ IF auth.user = <<>>
           THEN last' = HTTPException(call, auth.status, auth.detail)
           ELSE last' = Respond(call, 200, "",
                                <<CategorySpendingRows(auth.user[1], start_date, end_date)>>)
        /\ UNCHANGED <<users, categories, transactions, budgets, now, inflight>>

\* recent_transactions: n is validated to 1..100 by Query(10, ge=1, le=100).
recent_transactions(cred, n) ==
    LET call == Call("recent_transactions", cred, <<>>, <<[n |-> n]>>)
        auth == get_current_user(cred)
        rows == UserTransactions(auth.user[1])
    IN  /\ IF auth.user = <<>>
           THEN last' = HTTPException(call, auth.status, auth.detail)
           ELSE \E s \in OrderByTimestampDesc(rows) :
                last' = Respond(call, 200, "", <<OffsetLimit(s, Cardinality(rows), 0, n)>>)
        /\ UNCHANGED <<users, categories, transactions, budgets, now, inflight>>

\* `if budget.category_id:` -- Python truth of an Optional[int]: None and 0
\* are both false.
CategoryFilterApplies(category_id) == category_id # <<>> /\ category_id[1] # 0

\* txn_q ... .scalar() or 0: the expenses of the user the budget counts.
BudgetSpent(budget, user) ==
    SumAmount({t \in UserTypeTransactions(user, "expense") :
                /\ t.timestamp >= budget.start_date
                /\ budget.end_date # <<>> => t.timestamp <= budget.end_date[1]
                /\ CategoryFilterApplies(budget.category_id) =>
                        t.category_id = budget.category_id[1]})

\* db.query(Budget).filter(Budget.user_id == user.id).all()
UserBudgets(user) == {b \in budgets : b.user_id = user.id}

\* The rows of the response; the model keeps them as a set (the query has
\* no order_by).
BudgetUsageRows(user) ==
    {[budget_id |-> b.id,
      category_id |-> b.category_id,
      period |-> b.period,
      limit |-> b.limit,
      start_date |-> b.start_date,
      end_date |-> b.end_date,
      spent |-> BudgetSpent(b, user)] : b \in UserBudgets(user)}

budget_usage(cred) ==
    LET call == Call("budget_usage", cred, <<>>, <<>>)
        auth == get_current_user(cred)
    IN  /\ IF auth.user = <<>>
           THEN last' = HTTPException(call, auth.status, auth.detail)
           ELSE last' = Respond(call, 200, "", <<BudgetUsageRows(auth.user[1])>>)
        /\ UNCHANGED <<users, categories, transactions, budgets, now, inflight>>

\* Time passes between two calls.
Tick ==
    /\ now < MaxTime
    /\ now' = now + 1
    /\ last' = Idle
    /\ UNCHANGED <<users, categories, transactions, budgets, inflight>>

EmptyDb ==
    /\ users = {}
    /\ categories = {}
    /\ transactions = {}
    /\ budgets = {}

Init ==
    /\ EmptyDb
    /\ now = 0
    /\ last = Idle
    /\ inflight = <<>>

(***************************************************************************)
(* The credential store alone: registration and login.                     *)
(***************************************************************************)
NextAuth ==
    \/ \E email \in Emails, password \in Passwords : register(email, password)
    \/ \E email \in Emails, password \in Passwords : login(email, password)
    \/ Tick

SpecAuth == Init /\ [][NextAuth]_vars

(***************************************************************************)
(* The ledger and the budget registry, called by two registered users.     *)
(***************************************************************************)
\* The user table after two registrations.
RegisteredUsers ==
    {[id |-> 1, email |-> "a@x.io", hashed_password |-> get_password_hash("secret1", "s1")],
     [id |-> 2, email |-> "b@x.io", hashed_password |-> get_password_hash("secret2", "s2")]}

\* The category table after one create_category call.
RegisteredCategories == {[id |-> 1, name |-> "Food", color |-> <<>>]}

InitLedger ==
    /\ users = RegisteredUsers
    /\ categories = RegisteredCategories
    /\ transactions = {}
    /\ budgets = {}
    /\ now = 0
    /\ last = Idle
    /\ inflight = <<>>

\* A token as login has just issued it for the user id `sub`.
FreshToken(sub) == <<create_access_token(sub)>>

\* The ids a call may name: every id given out so far and the next one.
TransactionIds == 1..NextId(transactions)
BudgetIds == 1..NextId(budgets)

\* Request bodies (schemas.TransactionCreate): category 1 exists, category 2
\* does not; amounts of either sign; description and timestamp given or omitted.
TransactionBodies ==
    {[category_id |-> 1, amount |-> 1, description |-> <<"memo">>, type |-> "expense",
      timestamp |-> <<>>],
     [category_id |-> 1, amount |-> -1, description |-> <<>>, type |-> "income",
      timestamp |-> <<1>>],
     [category_id |-> 2, amount |-> 0, description |-> <<>>, type |-> "expense",
      timestamp |-> <<1>>]}

\* Request bodies (schemas.BudgetCreate): no category, an existing category,
\* a category that does not exist.
BudgetBodies ==
    {[category_id |-> <<>>, limit |-> 1, period |-> "monthly", start_date |-> 0,
      end_date |-> <<>>],
     [category_id |-> <<1>>, limit |-> 0, period |-> "weekly", start_date |-> 1,
      end_date |-> <<0>>],
     [category_id |-> <<2>>, limit |-> 1, period |-> "monthly", start_date |-> 0,
      end_date |-> <<1>>]}

\* Tokens login has just issued to the registered users.
LedgerCredentials == {FreshToken(u.id) : u \in users}

NextLedger ==
    \/ \E cred \in LedgerCredentials, req \in TransactionBodies :
            create_transaction(cred, req)
    \/ \E cred \in LedgerCredentials, id \in TransactionIds : get_transaction(cred, id)
    \/ \E cred \in LedgerCredentials, id \in TransactionIds, req \in TransactionBodies :
            update_transaction(cred, id, req)
    \/ \E cred \in LedgerCredentials, id \in TransactionIds : delete_transaction(cred, id)

Spec == InitLedger /\ [][NextLedger]_vars

(***************************************************************************)
(* Two users working on the ledger and the budget registry side by side.   *)
(***************************************************************************)
OwnershipTransactionBodies == {req \in TransactionBodies : req.timestamp # <<>>}

OwnershipBudgetBodies == {req \in BudgetBodies : req.category_id # <<2>>}

NextOwnership ==
    \/ \E cred \in LedgerCredentials, req \in OwnershipTransactionBodies :
            create_transaction(cred, req)
    \/ \E cred \in LedgerCredentials, id \in TransactionIds : get_transaction(cred, id)
    \/ \E cred \in LedgerCredentials, id \in TransactionIds, req \in OwnershipTransactionBodies :
            update_transaction(cred, id, req)
    \/ \E cred \in LedgerCredentials, id \in TransactionIds : delete_transaction(cred, id)
    \/ \E cred \in LedgerCredentials, req \in OwnershipBudgetBodies : create_budget(cred, req)
    \/ \E cred \in LedgerCredentials, id \in BudgetIds : get_budget(cred, id)
    \/ \E cred \in LedgerCredentials, id \in BudgetIds, req \in OwnershipBudgetBodies :
            update_budget(cred, id, req)
    \/ \E cred \in LedgerCredentials, id \in BudgetIds : delete_budget(cred, id)

SpecOwnership == InitLedger /\ [][NextOwnership]_vars

(***************************************************************************)
(* The access gate in front of the ledger and the budget registry: every   *)
(* kind of credential, on every protected handler.                         *)
(***************************************************************************)
\* No bearer token; a token whose signature does not verify; an expired
\* token; a token without subject; tokens for the user ids 1, 2 and 3.
AllCredentials ==
    {<<>>,
     <<[signed |-> FALSE, sub |-> <<1>>, exp |-> now + ACCESS_TOKEN_EXPIRE_DAYS]>>,
     <<[signed |-> TRUE, sub |-> <<1>>, exp |-> now - 1]>>,
     <<[signed |-> TRUE, sub |-> <<>>, exp |-> now + ACCESS_TOKEN_EXPIRE_DAYS]>>}
    \cup {FreshToken(id) : id \in 1..(Cardinality(users) + 1)}

GateTransactionBodies ==
    {req \in TransactionBodies : req.category_id = 1 /\ req.amount = 1}

GateBudgetBodies == {req \in BudgetBodies : req.category_id = <<>>}

NextGate ==
    \/ \E cred \in AllCredentials, req \in GateTransactionBodies :
            create_transaction(cred, req)
    \/ \E cred \in AllCredentials, id \in TransactionIds : get_transaction(cred, id)
    \/ \E cred \in AllCredentials, id \in TransactionIds, req \in GateTransactionBodies :
            update_transaction(cred, id, req)
    \/ \E cred \in AllCredentials, id \in TransactionIds : delete_transaction(cred, id)
    \/ \E cred \in AllCredentials, req \in GateBudgetBodies : create_budget(cred, req)
    \/ \E cred \in AllCredentials, id \in BudgetIds : get_budget(cred, id)
    \/ \E cred \in AllCredentials, id \in BudgetIds, req \in GateBudgetBodies :
            update_budget(cred, id, req)
    \/ \E cred \in AllCredentials, id \in BudgetIds : delete_budget(cred, id)

SpecGate == InitLedger /\ [][NextGate]_vars

(***************************************************************************)
(* register under concurrent requests: each request runs its lookup        *)
(* (auth.py:81-83) and later its insert and commit (auth.py:84-89); other  *)
(* requests may run in between.  The unique index on users.email rejects   *)
(* the commit of a second row with the same email; register does not catch *)
(* the IntegrityError, so the request ends as an internal server error.    *)
(***************************************************************************)
register_lookup(email, password) ==
    LET call == Call("register", <<>>, <<>>, <<[email |-> email, password |-> password]>>)
        existing == First({u \in users : u.email = email})
    IN  /\ Len(inflight) < MaxInflight
        /\ IF existing # <<>>
           THEN /\ last' = HTTPException(call, 400, "Email already registered")
                /\ inflight' = inflight
           ELSE /\ inflight' = Append(inflight, call)
                /\ last' = last
        /\ UNCHANGED <<users, categories, transactions, budgets, now>>

Remove(seq, i) == SubSeq(seq, 1, i - 1) \o SubSeq(seq, i + 1, Len(seq))

register_commit(i) ==
    /\ i \in 1..Len(inflight)
    /\ LET call == inflight[i]
           email == call.req[1].email
       IN  \E salt \in Salts :
           LET u == [id |-> NextId(users), email |-> email,
                     hashed_password |-> get_password_hash(call.req[1].password, salt)]
           IN  IF UsersEmailUnique(users \cup {u})
               THEN /\ users' = users \cup {u}
                    /\ last' = Respond(call, 200, "", <<create_access_token(u.id)>>)
               ELSE /\ users' = users
                    /\ last' = HTTPException(call, 500, "Internal Server Error")
    /\ inflight' = Remove(inflight, i)
    /\ UNCHANGED <<categories, transactions, budgets, now>>

NextRace ==
    \/ \E email \in Emails, password \in Passwords : register_lookup(email, password)
    \/ \E i \in 1..MaxInflight : register_commit(i)
    \/ Tick

SpecRace == Init /\ [][NextRace]_vars

(***************************************************************************)
(* The category registry: create_category calls one after another and      *)
(* concurrent ones, each running its lookup (transactions.py:117-119) and   *)
(* later its insert and commit (transactions.py:120-123).  The unique index *)
(* on categories.name rejects the commit of a second row with the same     *)
(* name; create_category does not catch the IntegrityError.                *)
(***************************************************************************)
\* Request bodies (schemas.CategoryCreate): names that differ in case only,
\* with and without a colour.
CategoryBodies ==
    {[name |-> "Food", color |-> <<>>],
     [name |-> "Food", color |-> <<"#0a0">>],
     [name |-> "food", color |-> <<"#0a0">>],
     [name |-> "Rent", color |-> <<>>]}

create_category_lookup(category_in) ==
    LET call == Call("create_category", <<>>, <<>>, <<category_in>>)
        existing == First({c \in categories : c.name = category_in.name})
    IN  /\ Len(inflight) < MaxInflight
        /\ IF existing # <<>>
           THEN /\ last' = HTTPException(call, 400, "Category name already exists")
                /\ inflight' = inflight
           ELSE /\ inflight' = Append(inflight, call)
                /\ last' = last
        /\ UNCHANGED <<users, categories, transactions, budgets, now>>

create_category_commit(i) ==
    /\ i \in 1..Len(inflight)
    /\ LET call == inflight[i]
           category == [id |-> NextId(categories), name |-> call.req[1].name,
                        color |-> call.req[1].color]
       IN  IF CategoryNameUnique(categories \cup {category})
           THEN /\ categories' = categories \cup {category}
                /\ last' = Respond(call, 200, "", <<category>>)
           ELSE /\ categories' = categories
                /\ last' = HTTPException(call, 500, "Internal Server Error")
    /\ inflight' = Remove(inflight, i)
    /\ UNCHANGED <<users, transactions, budgets, now>>

NextCategories ==
    \/ \E category_in \in CategoryBodies : create_category(category_in)
    \/ \E category_in \in CategoryBodies : create_category_lookup(category_in)
    \/ \E i \in 1..MaxInflight : create_category_commit(i)

SpecCategories == Init /\ [][NextCategories]_vars

(***************************************************************************)
(* The ledger with its paginated listing.                                  *)
(***************************************************************************)
\* Query parameters skip and limit of the listing.
Skips == 0..1
Limits == 1..MaxTxns

NextList ==
    \/ \E cred \in LedgerCredentials, req \in TransactionBodies :
            create_transaction(cred, req)
    \/ \E cred \in LedgerCredentials, id \in TransactionIds : get_transaction(cred, id)
    \/ \E cred \in LedgerCredentials, id \in TransactionIds, req \in TransactionBodies :
            update_transaction(cred, id, req)
    \/ \E cred \in LedgerCredentials, id \in TransactionIds : delete_transaction(cred, id)
    \/ \E cred \in LedgerCredentials, skip \in Skips, limit \in Limits :
            list_transactions(cred, skip, limit)

SpecList == InitLedger /\ [][NextList]_vars

(***************************************************************************)
(* The analytics engine over a ledger that two users fill while time       *)
(* passes.                                                                 *)
(***************************************************************************)
\* Request bodies: an expense dated at the time of the call, an income dated
\* day 1, an expense with a negative amount naming the category 2, which
\* does not exist.
AnalyticsTransactionBodies ==
    {[category_id |-> 1, amount |-> 2, description |-> <<>>, type |-> "expense",
      timestamp |-> <<>>],
     [category_id |-> 1, amount |-> 1, description |-> <<>>, type |-> "income",
      timestamp |-> <<1>>],
     [category_id |-> 2, amount |-> -1, description |-> <<>>, type |-> "expense",
      timestamp |-> <<1>>]}

\* Query parameters start_date and end_date: omitted or day 1.
WindowBounds == {<<>>, <<1>>}

NextAnalytics ==
    \/ \E cred \in LedgerCredentials, req \in AnalyticsTransactionBodies :
            create_transaction(cred, req)
    \/ \E cred \in LedgerCredentials, id \in TransactionIds,
          req \in AnalyticsTransactionBodies :
            update_transaction(cred, id, req)
    \/ \E cred \in LedgerCredentials : dashboard_summary(cred)
    \/ \E cred \in LedgerCredentials, start_date \in WindowBounds, end_date \in WindowBounds :
            category_spending(cred, start_date, end_date)
    \/ Tick

SpecAnalytics == InitLedger /\ [][NextAnalytics]_vars

(***************************************************************************)
(* Budgets against the ledger: budget_usage.                               *)
(***************************************************************************)
\* Request bodies: an expense above the budgets' limit and an income, both
\* dated day 1, and an expense dated day 0 naming the category id 0, which
\* no category row has.
UsageTransactionBodies ==
    {[category_id |-> 1, amount |-> 2, description |-> <<>>, type |-> "expense",
      timestamp |-> <<1>>],
     [category_id |-> 1, amount |-> 1, description |-> <<>>, type |-> "income",
      timestamp |-> <<1>>],
     [category_id |-> 0, amount |-> 1, description |-> <<>>, type |-> "expense",
      timestamp |-> <<0>>]}

\* Request bodies: a general budget that ends on day 0, a budget of the
\* category 1 for day 1, an open-ended budget naming the category id 0.
UsageBudgetBodies ==
    {[category_id |-> <<>>, limit |-> 1, period |-> "monthly", start_date |-> 0,
      end_date |-> <<0>>],
     [category_id |-> <<1>>, limit |-> 1, period |-> "weekly", start_date |-> 1,
      end_date |-> <<1>>],
     [category_id |-> <<0>>, limit |-> 1, period |-> "monthly", start_date |-> 0,
      end_date |-> <<>>]}

NextUsage ==
    \/ \E cred \in LedgerCredentials, req \in UsageTransactionBodies :
            create_transaction(cred, req)
    \/ \E cred \in LedgerCredentials, id \in TransactionIds, req \in UsageTransactionBodies :
            update_transaction(cred, id, req)
    \/ \E cred \in LedgerCredentials, req \in UsageBudgetBodies : create_budget(cred, req)
    \/ \E cred \in LedgerCredentials, id \in BudgetIds, req \in UsageBudgetBodies :
            update_budget(cred, id, req)
    \/ \E cred \in LedgerCredentials : budget_usage(cred)

SpecUsage == InitLedger /\ [][NextUsage]_vars

(***************************************************************************)
(* update_transaction under concurrent requests.  Each request reads the   *)
(* row into its own session (transactions.py:82), assigns the request's    *)
(* fields to the loaded object (85-89) and commits (90); other requests    *)
(* may run in between.  The commit flushes an UPDATE of the row by primary *)
(* key that sets the columns whose assigned value differs from the value   *)
(* the session loaded, and no others (the unit of work writes net changes  *)
(* only); there is no version column and no row lock.                      *)
(***************************************************************************)
\* Request bodies that differ from one another in one field each.
ConcurrentTransactionBodies ==
    {[category_id |-> 1, amount |-> 1, description |-> <<>>, type |-> "expense",
      timestamp |-> <<1>>],
     [category_id |-> 1, amount |-> 2, description |-> <<>>, type |-> "expense",
      timestamp |-> <<1>>],
     [category_id |-> 1, amount |-> 1, description |-> <<"memo">>, type |-> "expense",
      timestamp |-> <<1>>]}

update_transaction_read(cred, transaction_id, req) ==
    LET call == Call("update_transaction", cred, <<transaction_id>>, <<req>>)
        auth == get_current_user(cred)
        txn == OwnedTransaction(transaction_id, auth.user[1])
    IN  /\ Len(inflight) < MaxInflight
        /\ IF auth.user = <<>>
           THEN /\ last' = HTTPException(call, auth.status, auth.detail)
                /\ inflight' = inflight
           ELSE IF txn = <<>>
           THEN /\ last' = HTTPException(call, 404, "Transaction not found")
                /\ inflight' = inflight
           ELSE /\ inflight' = Append(inflight, [call |-> call, loaded |-> txn[1]])
                /\ last' = last
        /\ UNCHANGED <<users, categories, transactions, budgets, now>>

\* The value the UPDATE leaves in a column: the assigned one when it differs
\* from the loaded one, else the stored one, untouched.
Flushed(stored, loaded, assigned) == IF assigned # loaded THEN assigned ELSE stored

update_transaction_commit(i) ==
    /\ i \in 1..Len(inflight)
    /\ LET call == inflight[i].call
           loaded == inflight[i].loaded
           req == call.req[1]
           stored == First({t \in transactions : t.id = loaded.id})
           flushed ==
               [stored[1] EXCEPT
                   !.category_id = Flushed(@, loaded.category_id, req.category_id),
                   !.amount = Flushed(@, loaded.amount, req.amount),
                   !.description = Flushed(@, loaded.description, req.description),
                   !.type = Flushed(@, loaded.type, req.type),
                   !.timestamp = Flushed(@, loaded.timestamp,
                                         IF req.timestamp # <<>> THEN req.timestamp[1]
                                         ELSE loaded.timestamp)]
       IN  IF stored = <<>>
           THEN /\ last' = HTTPException(call, 500, "Internal Server Error")
                /\ transactions' = transactions
           ELSE \E enforced \in BOOLEAN :
                IF ForeignKeyError(<<flushed.category_id>>, enforced)
                THEN /\ last' = HTTPException(call, 500, "Internal Server Error")
                     /\ transactions' = transactions
                ELSE /\ transactions' = (transactions \ {stored[1]}) \cup {flushed}
                     /\ last' = Respond(call, 200, "", <<flushed>>)
    /\ inflight' = Remove(inflight, i)
    /\ UNCHANGED <<users, categories, budgets, now>>

NextConcurrentUpdate ==
    \/ \E cred \in LedgerCredentials, req \in ConcurrentTransactionBodies :
            create_transaction(cred, req)
    \/ \E cred \in LedgerCredentials, id \in TransactionIds,
          req \in ConcurrentTransactionBodies :
            update_transaction_read(cred, id, req)
    \/ \E i \in 1..MaxInflight : update_transaction_commit(i)

SpecConcurrentUpdate == InitLedger /\ [][NextConcurrentUpdate]_vars

(***************************************************************************)
(* The reading operations over a store that two users fill.                *)
(***************************************************************************)
ReadTransactionBodies == {req \in TransactionBodies : req.category_id = 1}

NextRead ==
    \/ \E cred \in LedgerCredentials, req \in ReadTransactionBodies :
            create_transaction(cred, req)
    \/ \E cred \in LedgerCredentials, req \in OwnershipBudgetBodies : create_budget(cred, req)
    \/ \E cred \in LedgerCredentials, id \in TransactionIds : get_transaction(cred, id)
    \/ \E cred \in LedgerCredentials, skip \in Skips, limit \in Limits :
            list_transactions(cred, skip, limit)
    \/ \E cred \in LedgerCredentials, n \in Limits : recent_transactions(cred, n)
    \/ \E cred \in LedgerCredentials, id \in BudgetIds : get_budget(cred, id)
    \/ \E cred \in LedgerCredentials : list_budgets(cred)
    \/ \E cred \in LedgerCredentials : dashboard_summary(cred)
    \/ \E cred \in LedgerCredentials, start_date \in WindowBounds, end_date \in WindowBounds :
            category_spending(cred, start_date, end_date)
    \/ \E cred \in LedgerCredentials : budget_usage(cred)

SpecRead == InitLedger /\ [][NextRead]_vars

(***************************************************************************)
(* Two users writing to the ledger and the budget registry.                *)
(***************************************************************************)
PartitionTransactionBodies ==
    {[category_id |-> 1, amount |-> 2, description |-> <<>>, type |-> "expense",
      timestamp |-> <<1>>],
     [category_id |-> 1, amount |-> 1, description |-> <<>>, type |-> "income",
      timestamp |-> <<0>>]}

PartitionBudgetBodies ==
    {[category_id |-> <<1>>, limit |-> 1, period |-> "monthly", start_date |-> 0,
      end_date |-> <<>>],
     [category_id |-> <<>>, limit |-> 2, period |-> "weekly", start_date |-> 1,
      end_date |-> <<1>>]}

NextPartition ==
    \/ \E cred \in LedgerCredentials, req \in PartitionTransactionBodies :
            create_transaction(cred, req)
    \/ \E cred \in LedgerCredentials, id \in TransactionIds,
          req \in PartitionTransactionBodies :
            update_transaction(cred, id, req)
    \/ \E cred \in LedgerCredentials, id \in TransactionIds : delete_transaction(cred, id)
    \/ \E cred \in LedgerCredentials, req \in PartitionBudgetBodies : create_budget(cred, req)
    \/ \E cred \in LedgerCredentials, id \in BudgetIds, req \in PartitionBudgetBodies :
            update_budget(cred, id, req)
    \/ \E cred \in LedgerCredentials, id \in BudgetIds : delete_budget(cred, id)

SpecPartition == InitLedger /\ [][NextPartition]_vars

(***************************************************************************)
(* Claims on the credential store                                          *)
(***************************************************************************)
\* The password a stored digest was computed from.
PasswordOf(u) ==
    CHOOSE p \in Passwords : Digest(u.hashed_password.salt, p) = u.hashed_password.digest

IsRegister(r) == r.op = "register"
IsLogin(r) == r.op = "login"

\* C2: a register call for an email that no user row holds succeeds and adds
\* exactly one row with that email; a register call for an email some row
\* holds fails with 400 "Email already registered" and leaves the user table
\* unchanged; rows are never removed, so an email succeeds once, the first time.
C2_RegistrationUniqueness ==
    [][/\ users \subseteq users'
       /\ IsRegister(last') =>
            LET email == last'.req[1].email IN
            IF \E u \in users : u.email = email
            THEN /\ last'.status = 400
                 /\ last'.detail = "Email already registered"
                 /\ users' = users
            ELSE /\ last'.status = 200
                 /\ \E u \in users' : u.email = email /\ u \notin users /\ users' = users \cup {u}
      ]_vars

\* C2 witness: a register call was refused because the email is registered.
C2_Witness ==
    /\ IsRegister(last)
    /\ last.status = 400
    /\ \E u \in users : u.email = last.req[1].email

\* C3 as claimed: every finished register call either succeeded or failed
\* with DuplicateEmail (400 "Email already registered"), and no two user rows
\* share an email.
C3_ConcurrentRegisterAsClaimed ==
    /\ UsersEmailUnique(users)
    /\ IsRegister(last) =>
          \/ last.status = 200
          \/ last.status = 400 /\ last.detail = "Email already registered"

\* C4: a login call succeeds with a token for the user iff a user row with
\* the email exists and the password is the one that row's digest was
\* computed from at registration; the digest a successful register stores
\* is the digest of the password it was called with.
C4_LoginCorrectness ==
    /\ IsLogin(last) =>
          LET email == last.req[1].email
              password == last.req[1].password
              matching == {u \in users : u.email = email /\ PasswordOf(u) = password}
          IN  /\ last.status = 200 <=> matching # {}
              /\ last.status = 200 =>
                    /\ last.body # <<>>
                    /\ \E u \in matching : last.body[1].sub = <<u.id>>
    /\ IsRegister(last) /\ last.status = 200 =>
          \E u \in users :
              /\ u.email = last.req[1].email
              /\ PasswordOf(u) = last.req[1].password
              /\ last.body[1].sub = <<u.id>>

\* C4 witness: a login succeeded while another password would not have.
C4_Witness ==
    /\ IsLogin(last)
    /\ last.status = 200
    /\ Cardinality(users) = 2

Answer(r) == [status |-> r.status, detail |-> r.detail, body |-> r.body]

NotFound(detail) == [status |-> 404, detail |-> detail, body |-> <<>>]

\* The credential of the call is a valid token of an existing user.
Resolves(cred) ==
    /\ cred # <<>>
    /\ cred[1].signed
    /\ cred[1].exp >= now
    /\ cred[1].sub # <<>>
    /\ \E u \in users : u.id = cred[1].sub[1]

CallerId(r) == r.cred[1].sub[1]

TransactionByIdOps == {"get_transaction", "update_transaction", "delete_transaction"}
BudgetByIdOps == {"get_budget", "update_budget", "delete_budget"}
ProtectedOps ==
    TransactionByIdOps \cup BudgetByIdOps \cup {"create_transaction", "create_budget"}

\* C1: a get, update or delete by user A on a transaction (budget) id whose
\* row belongs to another user answers exactly what it answers for an id no
\* row has, 404 "Transaction not found" ("Budget not found") without body,
\* and leaves both tables unchanged.
C1_OwnershipFold ==
    [][/\ (last'.op \in TransactionByIdOps /\ Resolves(last'.cred)) =>
            LET id == last'.id[1]
                foreign == \E t \in transactions : t.id = id /\ t.user_id # CallerId(last')
                absent == ~\E t \in transactions : t.id = id
            IN  (foreign \/ absent) =>
                    /\ Answer(last') = NotFound("Transaction not found")
                    /\ transactions' = transactions
                    /\ budgets' = budgets
       /\ (last'.op \in BudgetByIdOps /\ Resolves(last'.cred)) =>
            LET id == last'.id[1]
                foreign == \E b \in budgets : b.id = id /\ b.user_id # CallerId(last')
                absent == ~\E b \in budgets : b.id = id
            IN  (foreign \/ absent) =>
                    /\ Answer(last') = NotFound("Budget not found")
                    /\ transactions' = transactions
                    /\ budgets' = budgets
      ]_vars

\* C1 witness: a user's update of another user's transaction was answered
\* with 404, and that user's own delete of a budget id was answered 404 before.
C1_Witness ==
    /\ last.op = "update_transaction"
    /\ last.status = 404
    /\ \E t \in transactions : t.id = last.id[1] /\ t.user_id # CallerId(last)
    /\ \E b \in budgets : b.user_id # CallerId(last)

\* C6 as claimed: a call of a protected handler with a credential that
\* resolves to no user is answered with status 401 and changes no
\* transaction or budget row.
C6_UnauthenticatedAsClaimed ==
    [][(last'.op \in ProtectedOps /\ ~Resolves(last'.cred)) =>
            /\ last'.status = 401
            /\ transactions' = transactions
            /\ budgets' = budgets
      ]_vars

\* C7: create_transaction by an authenticated user with a category_id that
\* no category row has answers 404 "Category not found" and adds no row;
\* with an existing category it answers 200 and adds exactly one row, owned
\* by the caller and carrying the request's category.
C7_CreateValidatesCategory ==
    [][(last'.op = "create_transaction" /\ Resolves(last'.cred)) =>
            LET req == last'.req[1] IN
            IF ~\E c \in categories : c.id = req.category_id
            THEN /\ Answer(last') = NotFound("Category not found")
                 /\ transactions' = transactions
            ELSE /\ last'.status = 200
                 /\ \E t \in transactions' :
                        /\ t \notin transactions
                        /\ transactions' = transactions \cup {t}
                        /\ ~\E o \in transactions : o.id = t.id
                        /\ t.user_id = CallerId(last')
                        /\ t.category_id = req.category_id
                        /\ last'.body = <<t>>
      ]_vars

\* C7 witness: a create naming a missing category was refused while the
\* ledger holds a row created with an existing one.
C7_Witness ==
    /\ last.op = "create_transaction"
    /\ Answer(last) = NotFound("Category not found")
    /\ transactions # {}

C9_UpdateValidatesCategoryAsClaimed ==
    [][(last'.op = "update_transaction" /\ Resolves(last'.cred)) =>
            LET req == last'.req[1]
                owned == \E t \in transactions :
                            t.id = last'.id[1] /\ t.user_id = CallerId(last')
            IN  (owned /\ ~\E c \in categories : c.id = req.category_id) =>
                    /\ Answer(last') = NotFound("Category not found")
                    /\ transactions' = transactions
      ]_vars

\* C10: delete_transaction on an id for which the caller owns no row answers
\* 404 "Transaction not found" and changes nothing; on an owned row it answers
\* 204 and removes the row, so that the same delete repeated right after a
\* successful one answers 404.
C10_DeleteMissing ==
    [][(last'.op = "delete_transaction" /\ Resolves(last'.cred)) =>
            LET owned == {t \in transactions :
                            t.id = last'.id[1] /\ t.user_id = CallerId(last')}
                repeated == /\ last.op = "delete_transaction"
                            /\ last.status = 204
                            /\ last.cred = last'.cred
                            /\ last.id = last'.id
            IN  /\ owned = {} =>
                    /\ Answer(last') = NotFound("Transaction not found")
                    /\ UNCHANGED <<users, categories, transactions, budgets>>
                /\ owned # {} =>
                    /\ last'.status = 204
                    /\ ~\E t \in transactions' : t.id = last'.id[1]
                /\ repeated => Answer(last') = NotFound("Transaction not found")
      ]_vars

\* C10 witness: a delete was answered 404 for an id that had been allocated
\* and deleted before (a newer row exists).
C10_Witness ==
    /\ last.op = "delete_transaction"
    /\ last.status = 404
    /\ \E t \in transactions : t.id > last.id[1]

(***************************************************************************)
(* Claims on the listing and on the life of a transaction                  *)
(***************************************************************************)
Range(s) == {s[i] : i \in DOMAIN s}

OwnRows(r, table) == {t \in table : t.user_id = CallerId(r)}

C12_OwnershipNeverTransfers ==
    [][/\ \A t \in transactions, u \in transactions' : t.id = u.id => t.user_id = u.user_id
       /\ last'.op = "update_transaction" =>
            {<<t.id, t.user_id>> : t \in transactions'}
                = {<<t.id, t.user_id>> : t \in transactions}
      ]_vars

\* C12 witness: an owner's update was stored while another user, who has
\* rows of their own, shares the ledger.
C12_Witness ==
    /\ last.op = "update_transaction"
    /\ last.status = 200
    /\ last.body[1] \in transactions
    /\ last.body[1].user_id = CallerId(last)
    /\ \E t \in transactions : t.user_id # CallerId(last)

\* C13 as claimed: a listing returns only the caller's rows, ordered by
\* timestamp descending and, among equal timestamps, by id descending.
C13_ListOrderAsClaimed ==
    (last.op = "list_transactions" /\ last.status = 200) =>
        LET page == last.body[1] IN
        /\ Range(page) \subseteq OwnRows(last, transactions)
        /\ \A i, j \in DOMAIN page : i < j =>
                \/ page[i].timestamp > page[j].timestamp
                \/ page[i].timestamp = page[j].timestamp /\ page[i].id > page[j].id

\* C14 as claimed: a listing returns at most min(limit, configured maximum)
\* rows.
C14_LimitClampedAsClaimed ==
    (last.op = "list_transactions" /\ last.status = 200) =>
        Len(last.body[1]) <= Min(last.req[1].limit, MaxListLimit)

(***************************************************************************)
(* Claims on the budget registry                                           *)
(***************************************************************************)
\* C15 as claimed: every stored budget whose end_date is set has
\* end_date >= start_date, and a create_budget whose end_date lies before its
\* start_date is refused.
C15_DateRangeAsClaimed ==
    /\ \A b \in budgets : b.end_date # <<>> => b.end_date[1] >= b.start_date
    /\ (last.op = "create_budget" /\ last.req[1].end_date # <<>>
            /\ last.req[1].end_date[1] < last.req[1].start_date) =>
            last.status # 200

\* C16 as claimed: every stored budget has limit > 0, and a create_budget
\* with limit <= 0 is refused.
C16_LimitPositiveAsClaimed ==
    /\ \A b \in budgets : b.limit > 0
    /\ (last.op = "create_budget" /\ last.req[1].limit <= 0) => last.status # 200

RECURSIVE SumTotalSpent(_)
SumTotalSpent(entries) ==
    IF entries = {} THEN 0
    ELSE LET e == CHOOSE x \in entries : TRUE
         IN  e.total_spent + SumTotalSpent(entries \ {e})

\* The caller's rows of one type, as the claims describe them.
OwnOfType(r, type) == {t \in OwnRows(r, transactions) : t.type = type}

MonthStart(t) == CHOOSE m \in 0..t : m % DaysPerMonth = 0 /\ t < m + DaysPerMonth

\* C19: month_income (month_expense) is the sum of amount over the caller's
\* income (expense) rows whose timestamp is not before the first day of the
\* month of the call; rows with an earlier timestamp do not count; when all
\* the caller's amounts are non-negative, month_income <= income_total and
\* month_expense <= expense_total.
C19_MonthlyWindow ==
    (last.op = "dashboard_summary" /\ Resolves(last.cred)) =>
        LET inMonth(type) == {t \in OwnOfType(last, type) : t.timestamp >= MonthStart(now)}
            summary == last.body[1]
        IN  /\ summary.month_income = SumAmount(inMonth("income"))
            /\ summary.month_expense = SumAmount(inMonth("expense"))
            /\ (\A t \in OwnRows(last, transactions) : t.amount >= 0) =>
                    /\ summary.month_income <= summary.income_total
                    /\ summary.month_expense <= summary.expense_total

\* C19 witness: a summary was answered for a caller who has an expense row
\* dated before the month of the call and another one inside it.
C19_Witness ==
    /\ last.op = "dashboard_summary"
    /\ last.status = 200
    /\ \E t \in OwnOfType(last, "expense") : t.timestamp < MonthStart(now)
    /\ \E t \in OwnOfType(last, "expense") : t.timestamp >= MonthStart(now)
    /\ last.body[1].month_expense # last.body[1].expense_total

\* C20 as claimed: category_spending returns exactly one entry per category
\* that has an expense row of the caller inside the window, with the sum of
\* those rows' amounts, and the entries' totals add up to the caller's
\* expense total over the same window.
C20_CategorySpendingAsClaimed ==
    (last.op = "category_spending" /\ Resolves(last.cred)) =>
        LET window == last.req[1]
            inWindow == {t \in OwnOfType(last, "expense") :
                            /\ window.start_date # <<>> => t.timestamp >= window.start_date[1]
                            /\ window.end_date # <<>> => t.timestamp <= window.end_date[1]}
            of(c) == {t \in inWindow : t.category_id = c.id}
            entries == last.body[1]
        IN  /\ last.status = 200
            /\ entries = {[category |-> c.name, total_spent |-> SumAmount(of(c))] :
                            c \in {k \in categories : of(k) # {}}}
            /\ SumTotalSpent(entries) = SumAmount(inWindow)

\* C21 as claimed: budget_usage returns one row per budget of the caller,
\* whose spent is the sum of amount over the caller's expenses dated from the
\* budget's start_date on, up to its end_date when that is set, and of the
\* budget's category when its category_id is set (of every category when it
\* is null); 0 when nothing matches, and not clamped to the limit.
C21_BudgetUsageAsClaimed ==
    (last.op = "budget_usage" /\ Resolves(last.cred)) =>
        LET own == {b \in budgets : b.user_id = CallerId(last)}
            matching(b) ==
                {t \in OwnOfType(last, "expense") :
                    /\ t.timestamp >= b.start_date
                    /\ b.end_date # <<>> => t.timestamp <= b.end_date[1]
                    /\ b.category_id # <<>> => t.category_id = b.category_id[1]}
            rows == last.body[1]
        IN  /\ last.status = 200
            /\ {r.budget_id : r \in rows} = {b.id : b \in own}
            /\ Cardinality(rows) = Cardinality(own)
            /\ \A r \in rows : \E b \in own :
                    /\ r.budget_id = b.id
                    /\ r.limit = b.limit
                    /\ r.spent = SumAmount(matching(b))
                    /\ matching(b) = {} => r.spent = 0

(***************************************************************************)
(* Claims on the store as a whole                                          *)
(***************************************************************************)
\* C22 as claimed: every stored transaction's category_id and every stored
\* budget's category_id that is not null is the id of a category row, and
\* every stored user_id is the id of a user row.
C22_ReferentialIntegrityAsClaimed ==
    /\ \A t \in transactions :
            /\ \E c \in categories : c.id = t.category_id
            /\ \E u \in users : u.id = t.user_id
    /\ \A b \in budgets :
            /\ b.category_id # <<>> => \E c \in categories : c.id = b.category_id[1]
            /\ \E u \in users : u.id = b.user_id

\* The fields an update request gives a row.
FieldsOf(r) ==
    [category_id |-> r.category_id, amount |-> r.amount,
     description |-> r.description, type |-> r.type]

\* C23 as claimed: whatever the interleaving of concurrent updates of one
\* transaction, the row stored once an update has committed carries the
\* complete field set of one of the requests, never a mixture of the fields
\* of two of them.
C23_LastWriterWinsAsClaimed ==
    (last.op = "update_transaction" /\ last.status = 200) =>
        \E t \in transactions :
            /\ t.id = last.id[1]
            /\ FieldsOf(t) \in {FieldsOf(req) : req \in ConcurrentTransactionBodies}

ReadOps ==
    {"get_transaction", "list_transactions", "recent_transactions", "get_budget",
     "list_budgets", "dashboard_summary", "category_spending", "budget_usage"}

\* C24 as claimed: a list, get or analytics call leaves every user,
\* category, transaction and budget row unchanged, and a call that repeats
\* the call before it, with the same arguments on the same stored state and
\* at the same time, is answered as that call was.
C24_ReadOnlyDeterministicAsClaimed ==
    [][last'.op \in ReadOps =>
            /\ UNCHANGED <<users, categories, transactions, budgets>>
            /\ (/\ last.op = last'.op
                /\ last.cred = last'.cred
                /\ last.id = last'.id
                /\ last.req = last'.req
                /\ now' = now) =>
                    /\ last'.status = last.status
                    /\ last'.body = last.body
      ]_vars

WriteOps ==
    {"create_transaction", "update_transaction", "delete_transaction",
     "create_budget", "update_budget", "delete_budget"}

\* C25: a transaction or budget create, update or delete by user A leaves
\* the transaction rows and the budget rows of every other user B as they
\* were, and with them what B's listing (its rows in every admissible
\* order), B's summary, B's category spending over every window and B's
\* budget usage return.
C25_PerUserPartition ==
    [][(last'.op \in WriteOps /\ Resolves(last'.cred)) =>
            \A u \in users : u.id # CallerId(last') =>
                /\ {t \in transactions' : t.user_id = u.id}
                        = {t \in transactions : t.user_id = u.id}
                /\ {b \in budgets' : b.user_id = u.id}
                        = {b \in budgets : b.user_id = u.id}
                /\ OrderByTimestampDesc(UserTransactions(u))'
                        = OrderByTimestampDesc(UserTransactions(u))
                /\ Summary(u)' = Summary(u)
                /\ \A start_date \in WindowBounds, end_date \in WindowBounds :
                        CategorySpendingRows(u, start_date, end_date)'
                            = CategorySpendingRows(u, start_date, end_date)
                /\ BudgetUsageRows(u)' = BudgetUsageRows(u)
      ]_vars

\* C25 witness: a user's delete of their own transaction succeeded while the
\* other user holds an expense and a budget that counts it.
C25_Witness ==
    /\ last.op = "delete_transaction"
    /\ last.status = 204
    /\ \E u \in users :
            /\ u.id # CallerId(last)
            /\ \E t \in transactions : t.user_id = u.id /\ t.type = "expense"
            /\ \E r \in BudgetUsageRows(u) : r.spent # 0

\* C26 as claimed: the row a successful transaction update leaves stored
\* under its id carries the request's category_id, amount, description (null
\* when the request omits it) and type; its timestamp is the one the row had
\* before when the request omits timestamp, and the request's otherwise.
C26_UpdateReplacesFieldsAsClaimed ==
    [][(last'.op = "update_transaction" /\ last'.status = 200) =>
            LET req == last'.req[1]
            IN  \E old \in transactions, new \in transactions' :
                    /\ old.id = last'.id[1]
                    /\ new.id = last'.id[1]
                    /\ new.category_id = req.category_id
                    /\ new.amount = req.amount
                    /\ new.description = req.description
                    /\ new.type = req.type
                    /\ new.timestamp = IF req.timestamp = <<>> THEN old.timestamp
                                       ELSE req.timestamp[1]
      ]_vars

====
